---- MODULE Spec2Model ----
(***************************************************************************)
(* Monte Carlo cyber-risk simulator: revenue classifier, parameter         *)
(* resolver, lazily loaded statistics cache and simulation engine          *)
(* (cyber_risk_simulator.py, simulation_types.py).                         *)
(*                                                                         *)
(* Revenues are integers (millions), costs are integers; a random draw is  *)
(* a nondeterministic choice from a small set.  Every exception of the     *)
(* code is a ValueError unless said otherwise; the model names the raise   *)
(* site after the error taxonomy:                                          *)
(*   "InvalidRevenue"  = ValueError("Invalid revenue: ...")                *)
(*   "UnknownIndustry" = ValueError("Unknown industry: ...")               *)
(*   "UnknownBand"     = ValueError("Invalid revenue band: ... for         *)
(*                        industry: ...")                                  *)
(***************************************************************************)
EXTENDS Integers, Sequences, FiniteSets, TLC

VARIABLES
    stats_file,   \* parsed content of the JSON file at config_dict['stats_csv']
    stats_cache,  \* module global stats_cache: None or the id of a loaded table object
    loads,        \* how many times the stats file was opened and parsed
    pc,           \* position of each concurrent worker inside load_stats
    parsed,       \* the object json.load gave each worker (None before it parses)
    ret,          \* what load_stats returned to each worker (None before it returns)
    sim,          \* the CyberRiskSimulator instance (constructed = FALSE before __init__)
    csv,          \* the file written by _save_results_to_csv (written = FALSE before)
    out,          \* observable outcome of the most recent constructor or run_simulation call
    last,         \* observable outcome of the most recent classifier or resolver call
    prev,         \* observable outcome of the classifier or resolver call before it
    companies_table,    \* rows of the synthetic_companies table of the database
    simulations_table,  \* rows of the simulations table of the database
    service,      \* the AnalysisService instance (exists = FALSE before __init__)
    svc_out,      \* observable outcome of the most recent AnalysisService call
    id_cache,     \* lru_cache of fetch_cost_by_company_from_db: argument -> result
    seg_cache,    \* lru_cache of fetch_cost_by_revenue_and_industry_from_db
    resp          \* the most recent HTTP response of the web service

vars == <<stats_file, stats_cache, loads, pc, parsed, ret, sim, csv, out, last, prev,
          companies_table, simulations_table, service, svc_out, id_cache,
          seg_cache, resp>>

workerVars == <<pc, parsed, ret>>
engineVars == <<sim, csv, out>>
callVars == <<last, prev>>
tableVars == <<companies_table, simulations_table>>
serviceVars == <<service, svc_out>>
webVars == <<id_cache, seg_cache, resp>>
dbVars == <<tableVars, serviceVars, webVars>>

(***************************************************************************)
(* Bounds of the model.                                                    *)
(***************************************************************************)
NumWorkers == 2    \* concurrent callers of load_stats
MaxRuns == 2       \* largest num_simulations given to the constructor
MaxLogRows == 3    \* cap on the length of self.results
MaxCompanies == 2  \* largest num_companies given to AnalysisService
MaxDbRows == 2     \* cap on the number of rows of the simulations table

(***************************************************************************)
(* simulation_types.py                                                     *)
(***************************************************************************)
\* class Industry(Enum): the member names
Industry == {"HEALTHCARE", "FINANCE", "RETAIL", "MANUFACTURING", "CONSTRUCTION"}

\* industry.name.lower()
Lower(name) ==
    CASE name = "HEALTHCARE"    -> "healthcare"
      [] name = "FINANCE"       -> "finance"
      [] name = "RETAIL"        -> "retail"
      [] name = "MANUFACTURING" -> "manufacturing"
      [] name = "CONSTRUCTION"  -> "construction"

\* class RevenueBand(Enum): the member names
RevenueBand == {"BAND_10M", "BAND_100M", "BAND_500M", "BAND_1B"}

\* revenue_band.value
BandValue(band) ==
    CASE band = "BAND_10M"  -> "10M"
      [] band = "BAND_100M" -> "100M"
      [] band = "BAND_500M" -> "500M"
      [] band = "BAND_1B"   -> "1B"

(***************************************************************************)
(* Results of a call: either a returned value or a raised exception.       *)
(***************************************************************************)
Return(v) == [raised |-> "", val |-> v]
Raise(e) == [raised |-> e, val |-> <<>>]

(***************************************************************************)
(* cyber_risk_simulator.py: pure functions                                 *)
(***************************************************************************)
\* variant: the first band closed below 10 instead of at 10
get_revenue_band_exclusive_edge(revenue) ==
    IF revenue < 0 THEN Raise("InvalidRevenue")
    ELSE IF revenue < 10 THEN Return("BAND_10M")
    ELSE IF revenue <= 100 THEN Return("BAND_100M")
    ELSE IF revenue <= 500 THEN Return("BAND_500M")
    ELSE IF revenue <= 1000 THEN Return("BAND_1B")
    ELSE Raise("InvalidRevenue")

get_revenue_band_by_revenue(revenue) ==
    IF revenue < 0 THEN Raise("InvalidRevenue")
    ELSE IF revenue <= 10 THEN Return("BAND_10M")
    ELSE IF revenue <= 100 THEN Return("BAND_100M")
    ELSE IF revenue <= 500 THEN Return("BAND_500M")
    ELSE IF revenue <= 1000 THEN Return("BAND_1B")
    ELSE Raise("InvalidRevenue")

\* the objects that have a .value attribute: the members of the two enums
HasValue(x) == x \in RevenueBand \cup Industry

get_revenue_boundaries_by_band(revenue_band) ==
    \* line 53: the debug f-string reads revenue_band.value before the match
    IF ~HasValue(revenue_band) THEN Raise("AttributeError")
    ELSE CASE revenue_band = "BAND_10M"  -> Return(<<0, 10>>)
           [] revenue_band = "BAND_100M" -> Return(<<10, 100>>)
           [] revenue_band = "BAND_500M" -> Return(<<100, 500>>)
           [] revenue_band = "BAND_1B"   -> Return(<<500, 1000>>)
           \* case _ (line 64): the logging f-string reads the undefined
           \* name 'revenue' before ValueError is raised
           [] OTHER                      -> Raise("NameError")

\* variant: the revenue is classified before the industry is looked up
params_classify_first(stats, industry, revenue) ==
    LET revenue_band == get_revenue_band_by_revenue(revenue) IN
    IF revenue_band.raised # "" THEN revenue_band
    ELSE IF Lower(industry) \notin DOMAIN stats THEN Raise("UnknownIndustry")
    ELSE IF BandValue(revenue_band.val) \notin DOMAIN stats[Lower(industry)]
         THEN Raise("UnknownBand")
    ELSE Return(<<stats[Lower(industry)][BandValue(revenue_band.val)].frequency,
                  stats[Lower(industry)][BandValue(revenue_band.val)].cost>>)

\* variant: a missing band defaults to (0, 0) instead of raising
params_default_band(stats, industry, revenue) ==
    IF Lower(industry) \notin DOMAIN stats THEN Raise("UnknownIndustry")
    ELSE LET revenue_band == get_revenue_band_by_revenue(revenue) IN
         IF revenue_band.raised # "" THEN revenue_band
         ELSE IF BandValue(revenue_band.val) \notin DOMAIN stats[Lower(industry)]
              THEN Return(<<0, 0>>)
         ELSE Return(<<stats[Lower(industry)][BandValue(revenue_band.val)].frequency,
                       stats[Lower(industry)][BandValue(revenue_band.val)].cost>>)

\* variant: the pair comes back as (cost, frequency)
params_swapped(stats, industry, revenue) ==
    IF Lower(industry) \notin DOMAIN stats THEN Raise("UnknownIndustry")
    ELSE LET revenue_band == get_revenue_band_by_revenue(revenue) IN
         IF revenue_band.raised # "" THEN revenue_band
         ELSE IF BandValue(revenue_band.val) \notin DOMAIN stats[Lower(industry)]
              THEN Raise("UnknownBand")
         ELSE Return(<<stats[Lower(industry)][BandValue(revenue_band.val)].cost,
                       stats[Lower(industry)][BandValue(revenue_band.val)].frequency>>)

\* resolve, given the table load_stats() returned
get_industry_revenue_params(stats, industry, revenue) ==
    IF Lower(industry) \notin DOMAIN stats THEN Raise("UnknownIndustry")
    ELSE LET revenue_band == get_revenue_band_by_revenue(revenue) IN
         IF revenue_band.raised # "" THEN revenue_band
         ELSE IF BandValue(revenue_band.val) \notin DOMAIN stats[Lower(industry)]
              THEN Raise("UnknownBand")
         ELSE Return(<<stats[Lower(industry)][BandValue(revenue_band.val)].frequency,
                       stats[Lower(industry)][BandValue(revenue_band.val)].cost>>)

(***************************************************************************)
(* The stats file: industry -> band label -> {frequency, cost}.  Three     *)
(* files: a complete one, the one of test_get_industry_revenue_params      *)
(* (finance only), and one whose healthcare entry lacks two bands.         *)
(***************************************************************************)
IndustryKeys == {Lower(i) : i \in Industry}
BandLabels == {BandValue(b) : b \in RevenueBand}

IndustryNo(k) ==
    CASE k = "healthcare"    -> 1
      [] k = "finance"       -> 0
      [] k = "retail"        -> 3
      [] k = "manufacturing" -> 4
      [] k = "construction"  -> 5

BandNo(l) ==
    CASE l = "10M" -> 1 [] l = "100M" -> 2 [] l = "500M" -> 3 [] l = "1B" -> 4

\* finance is the table of the test: 5/1000, 10/2000, 15/3000, 20/4000
Entry(k, l) == [frequency |-> 5 * BandNo(l) + IndustryNo(k),
                cost      |-> 1000 * BandNo(l) + 100 * IndustryNo(k)]

MakeTable(shape) == [k \in DOMAIN shape |-> [l \in shape[k] |-> Entry(k, l)]]

CompleteShape == [k \in IndustryKeys |-> BandLabels]
FinanceShape == [k \in {"finance"} |-> BandLabels]
IncompleteShape == [k \in {"finance", "healthcare", "retail"} |->
                      IF k = "healthcare" THEN {"10M", "500M"} ELSE BandLabels]

StatsFiles == {MakeTable(CompleteShape), MakeTable(FinanceShape),
               MakeTable(IncompleteShape)}

(***************************************************************************)
(* The module global and load_stats.  A loaded table is an object; its id  *)
(* is the number of the parse that produced it, its content is the file's. *)
(***************************************************************************)
None == 0

Workers == 1 .. NumWorkers

\* the table an object id stands for
Table(obj) == stats_file

\* load_stats() run without interruption: <<new stats_cache, new loads>>
load_stats ==
    IF stats_cache = None THEN <<loads + 1, loads + 1>>
    ELSE <<stats_cache, loads>>

(***************************************************************************)
(* Inputs                                                                  *)
(***************************************************************************)
\* every band edge with its neighbours, and the revenues of the tests
Revenues == {-1, 0, 1, 5, 10, 11, 20, 100, 101, 200, 500, 501, 800, 1000, 1001}

\* what a caller can hand to get_revenue_boundaries_by_band: a member, the
\* None parse_revenue_band gives for an unknown label, a bare label string,
\* or a member of another enum
BandInputs == RevenueBand \cup {"None", "10M", "HEALTHCARE"}

\* the engine before construction, the file system before any export, and
\* the outcome record before any engine call
NoSim == [constructed |-> FALSE, industry |-> "", revenue |-> 0,
          num_simulations |-> 0, freq_param |-> 0, sev_param |-> 0,
          results |-> <<>>]
NoFile == [written |-> FALSE, rows |-> <<>>]
\* the metrics record of a call that returned none
NoMetrics == [scale |-> 0, total_loss |-> 0, mean_loss |-> 0, median_loss |-> 0,
              variance |-> 0, min_loss |-> 0, max_loss |-> 0,
              percentile_95_loss |-> 0]

NoOut == [op |-> "", raised |-> "", industry |-> "", revenue |-> 0,
          num_simulations |-> 0, save_to_csv |-> FALSE, wrote_csv |-> FALSE,
          attack_counts |-> <<>>, costs |-> <<>>, results_before |-> <<>>,
          losses |-> <<>>, metrics |-> NoMetrics]

NoCall == [op |-> "", industry |-> "", revenue |-> 0, band |-> "",
           raised |-> "", val |-> <<>>]

\* no AnalysisService yet, and the outcome record before any service call
NoService == [exists |-> FALSE, companies |-> <<>>]
NoSvcOut == [op |-> "", raised |-> "", before |-> <<>>, constructed |-> <<>>,
             writes |-> 0]

\* an empty lru_cache
EmptyCache == <<>>

\* no HTTP response yet.  A response is its status code and the one entry of
\* its JSON body: 'average simulation cost' (value) or 'error' (error);
\* companies_then and rows_then are the two tables as they were when the
\* request was served, cached tells whether the lru_cache answered
NoResp == [op |-> "", company_id |-> 0, revenue |-> <<>>, industry |-> <<>>,
           status |-> 0, value |-> <<>>, error |-> "", cached |-> FALSE,
           companies_then |-> <<>>, rows_then |-> <<>>]

Init ==
    /\ stats_file \in StatsFiles
    /\ stats_cache = None
    /\ loads = 0
    /\ pc = [w \in Workers |-> "idle"]
    /\ parsed = [w \in Workers |-> None]
    /\ ret = [w \in Workers |-> None]
    /\ sim = NoSim
    /\ csv = NoFile
    /\ out = NoOut
    /\ last = NoCall
    /\ prev = NoCall
    /\ companies_table = <<>>
    /\ simulations_table = <<>>
    /\ service = NoService
    /\ svc_out = NoSvcOut
    /\ id_cache = EmptyCache
    /\ seg_cache = EmptyCache
    /\ resp = NoResp

(***************************************************************************)
(* Calls of the classifier and the resolver from one thread.               *)
(***************************************************************************)
Classify(revenue) ==
    LET r == get_revenue_band_by_revenue(revenue) IN
    /\ last' = [op |-> "classify", industry |-> "", revenue |-> revenue,
                band |-> IF r.raised = "" THEN r.val ELSE "",
                raised |-> r.raised, val |-> <<>>]
    /\ prev' = last
    /\ UNCHANGED <<dbVars, stats_file, stats_cache, loads, workerVars, engineVars>>

Bounds(revenue_band) ==
    LET r == get_revenue_boundaries_by_band(revenue_band) IN
    /\ last' = [op |-> "bounds", industry |-> "", revenue |-> 0,
                band |-> revenue_band, raised |-> r.raised, val |-> r.val]
    /\ prev' = last
    /\ UNCHANGED <<dbVars, stats_file, stats_cache, loads, workerVars, engineVars>>

Resolve(industry, revenue) ==
    LET ld == load_stats
        r == get_industry_revenue_params(Table(ld[1]), industry, revenue) IN
    /\ stats_cache' = ld[1]
    /\ loads' = ld[2]
    /\ last' = [op |-> "resolve", industry |-> industry, revenue |-> revenue,
                band |-> "", raised |-> r.raised, val |-> r.val]
    /\ prev' = last
    /\ UNCHANGED <<dbVars, stats_file, workerVars, engineVars>>

NextResolver ==
    \/ \E revenue \in Revenues : Classify(revenue)
    \/ \E revenue_band \in BandInputs : Bounds(revenue_band)
    \/ \E industry \in Industry, revenue \in Revenues : Resolve(industry, revenue)

SpecResolver == Init /\ [][NextResolver]_vars

(***************************************************************************)
(* load_stats called from several threads.  The interpreter can switch     *)
(* threads between the test of line 20, the open/json.load of lines 22-23, *)
(* the store into the global of line 23 and the read of line 24.           *)
(***************************************************************************)
\* line 20: if stats_cache is None
TestCache(w) ==
    /\ pc[w] = "idle"
    /\ pc' = [pc EXCEPT ![w] = IF stats_cache = None THEN "load" ELSE "return"]
    /\ UNCHANGED <<dbVars, stats_file, stats_cache, loads, parsed, ret, engineVars, callVars>>

\* lines 22-23: open the file and json.load it into a new object
ParseFile(w) ==
    /\ pc[w] = "load"
    /\ loads' = loads + 1
    /\ parsed' = [parsed EXCEPT ![w] = loads + 1]
    /\ pc' = [pc EXCEPT ![w] = "store"]
    /\ UNCHANGED <<dbVars, stats_file, stats_cache, ret, engineVars, callVars>>

\* line 23: stats_cache = <the parsed object>
StoreCache(w) ==
    /\ pc[w] = "store"
    /\ stats_cache' = parsed[w]
    /\ pc' = [pc EXCEPT ![w] = "return"]
    /\ UNCHANGED <<dbVars, stats_file, loads, parsed, ret, engineVars, callVars>>

\* line 24: return stats_cache
ReturnCache(w) ==
    /\ pc[w] = "return"
    /\ ret' = [ret EXCEPT ![w] = stats_cache]
    /\ pc' = [pc EXCEPT ![w] = "done"]
    /\ UNCHANGED <<dbVars, stats_file, stats_cache, loads, parsed, engineVars, callVars>>

\* the worker calls load_stats again
CallAgain(w) ==
    /\ pc[w] = "done"
    /\ pc' = [pc EXCEPT ![w] = "idle"]
    /\ parsed' = [parsed EXCEPT ![w] = None]
    /\ ret' = [ret EXCEPT ![w] = None]
    /\ UNCHANGED <<dbVars, stats_file, stats_cache, loads, engineVars, callVars>>

NextCache ==
    \E w \in Workers :
        \/ TestCache(w)
        \/ ParseFile(w)
        \/ StoreCache(w)
        \/ ReturnCache(w)
        \/ CallAgain(w)

SpecCache == Init /\ [][NextCache]_vars

(***************************************************************************)
(* The simulation engine: CyberRiskSimulator.                              *)
(***************************************************************************)
\* values a Normal(sev_param, 0.1 * sev_param) draw can take (unbounded below)
CostDraws == {-1, 5}

\* run counts given to the constructor
RunCounts == -1 .. MaxRuns

\* industry / revenue pairs given to the constructor: the pair of the
\* tests, an invalid revenue, and a band the incomplete file lacks
EngineInputs == {<<"FINANCE", 5>>, <<"FINANCE", -1>>, <<"HEALTHCARE", 20>>}

RECURSIVE SumSeq(_)
SumSeq(q) == IF q = <<>> THEN 0 ELSE q[1] + SumSeq(Tail(q))

\* how many costs were drawn before run i: the attacks of runs 1 .. i-1
DrawnBefore(attack_counts, i) == SumSeq(SubSeq(attack_counts, 1, i - 1))

\* the costs norm.rvs gave run i, in the order they were drawn
CostsOfRun(attack_counts, costs, i) ==
    SubSeq(costs, DrawnBefore(attack_counts, i) + 1,
                  DrawnBefore(attack_counts, i) + attack_counts[i])

\* the rows lines 150-156 append for run i (i counts from 1, as i + 1 does)
RowsOfRun(i, run_costs) ==
    [a \in 1 .. Len(run_costs) |->
        [simulation_id |-> i, attack_id |-> a, cost |-> run_costs[a]]]

RECURSIVE DataToAppend(_, _, _)
DataToAppend(attack_counts, costs, n) ==
    IF n = 0 THEN <<>>
    ELSE DataToAppend(attack_counts, costs, n - 1)
           \o RowsOfRun(n, CostsOfRun(attack_counts, costs, n))

\* variant: the log is rebuilt from this call's rows alone
simulate_losses_fresh_log(results, attack_counts, costs) ==
    [results |-> DataToAppend(attack_counts, costs, Len(attack_counts)),
     losses  |-> [i \in 1 .. Len(attack_counts) |->
                    SumSeq(CostsOfRun(attack_counts, costs, i))]]

\* variant: a negative cost draw counts as zero in the run's total
simulate_losses_clamped(results, attack_counts, costs) ==
    [results |-> results \o DataToAppend(attack_counts, costs, Len(attack_counts)),
     losses  |-> [i \in 1 .. Len(attack_counts) |->
                    SumSeq([a \in 1 .. attack_counts[i] |->
                        IF CostsOfRun(attack_counts, costs, i)[a] < 0 THEN 0
                        ELSE CostsOfRun(attack_counts, costs, i)[a]])]]

\* variant: a run's total is read back from the accumulated log, so rows of
\* earlier calls with the same simulation_id are added to it
simulate_losses_from_log(results, attack_counts, costs) ==
    [results |-> results \o DataToAppend(attack_counts, costs, Len(attack_counts)),
     losses  |-> [i \in 1 .. Len(attack_counts) |->
                    SumSeq(CostsOfRun(attack_counts, costs, i))
                    + SumSeq([j \in 1 .. Len(results) |->
                        IF results[j].simulation_id = i THEN results[j].cost
                        ELSE 0])]]

\* _simulate_losses: the new self.results and the returned losses
simulate_losses(results, attack_counts, costs) ==
    [results |-> results \o DataToAppend(attack_counts, costs, Len(attack_counts)),
     losses  |-> [i \in 1 .. Len(attack_counts) |->
                    SumSeq(CostsOfRun(attack_counts, costs, i))]]

(***************************************************************************)
(* The metrics of run_simulation (lines 210-226).  Means, medians and      *)
(* interpolated percentiles of integers are fractions: every field but the *)
(* variance is kept in units of 1 / scale, scale = 20 * N, and the         *)
(* population variance (np.std squared) in units of 1 / N^2.               *)
(***************************************************************************)
RECURSIVE Insert(_, _)
Insert(x, q) ==
    IF q = <<>> THEN <<x>>
    ELSE IF x <= q[1] THEN <<x>> \o q
    ELSE <<q[1]>> \o Insert(x, Tail(q))

RECURSIVE Sorted(_)
Sorted(q) == IF q = <<>> THEN <<>> ELSE Insert(q[1], Sorted(Tail(q)))

\* variant: the median is read from the middle of the losses as drawn,
\* without sorting them
metrics_unsorted_median(losses) ==
    LET N == Len(losses)
        s == Sorted(losses)
        total == SumSeq(losses)
        k == 19 * (N - 1)
        lo == (k \div 20) + 1
        hi == IF lo + 1 > N THEN N ELSE lo + 1
    IN [scale |-> 20 * N,
        total_loss |-> 20 * N * total,
        mean_loss |-> 20 * total,
        median_loss |-> IF N % 2 = 1 THEN 20 * N * losses[(N + 1) \div 2]
                        ELSE 10 * N * (losses[N \div 2] + losses[(N \div 2) + 1]),
        variance |-> N * SumSeq([i \in 1 .. N |-> losses[i] * losses[i]])
                       - total * total,
        min_loss |-> 20 * N * s[1],
        max_loss |-> 20 * N * s[N],
        percentile_95_loss |-> N * (20 * s[lo] + (k % 20) * (s[hi] - s[lo]))]

\* variant: the 95th percentile is taken as 95% of the maximum
metrics_p95_of_max(losses) ==
    LET N == Len(losses)
        s == Sorted(losses)
        total == SumSeq(losses)
    IN [scale |-> 20 * N,
        total_loss |-> 20 * N * total,
        mean_loss |-> 20 * total,
        median_loss |-> IF N % 2 = 1 THEN 20 * N * s[(N + 1) \div 2]
                        ELSE 10 * N * (s[N \div 2] + s[(N \div 2) + 1]),
        variance |-> N * SumSeq([i \in 1 .. N |-> losses[i] * losses[i]])
                       - total * total,
        min_loss |-> 20 * N * s[1],
        max_loss |-> 20 * N * s[N],
        percentile_95_loss |-> 19 * N * s[N]]

\* np.sum, np.mean, np.median, np.std, np.min, np.max, np.percentile(., 95)
\* with linear interpolation at the 0-based position 0.95 * (N - 1)
SimulationMetrics(losses) ==
    LET N == Len(losses)
        s == Sorted(losses)
        total == SumSeq(losses)
        k == 19 * (N - 1)
        lo == (k \div 20) + 1
        hi == IF lo + 1 > N THEN N ELSE lo + 1
    IN [scale |-> 20 * N,
        total_loss |-> 20 * N * total,
        mean_loss |-> 20 * total,
        median_loss |-> IF N % 2 = 1 THEN 20 * N * s[(N + 1) \div 2]
                        ELSE 10 * N * (s[N \div 2] + s[(N \div 2) + 1]),
        variance |-> N * SumSeq([i \in 1 .. N |-> losses[i] * losses[i]])
                       - total * total,
        min_loss |-> 20 * N * s[1],
        max_loss |-> 20 * N * s[N],
        percentile_95_loss |-> N * (20 * s[lo] + (k % 20) * (s[hi] - s[lo]))]

\* the default of the constructor's num_simulations parameter
DefaultNumSimulations == 10000

\* variant: parameters are resolved lazily, so the constructor never fails
\* and leaves both parameters unset
construct_lazy(industry, revenue, num_simulations) ==
    /\ ~sim.constructed
    /\ sim' = [constructed |-> TRUE, industry |-> industry,
               revenue |-> revenue, num_simulations |-> num_simulations,
               freq_param |-> 0, sev_param |-> 0, results |-> <<>>]
    /\ out' = [NoOut EXCEPT !.op = "construct",
                            !.industry = industry, !.revenue = revenue,
                            !.num_simulations = num_simulations]
    /\ UNCHANGED <<dbVars, stats_file, stats_cache, loads, csv, workerVars, callVars>>

\* __init__
Construct(industry, revenue, num_simulations) ==
    LET ld == load_stats
        r == get_industry_revenue_params(Table(ld[1]), industry, revenue) IN
    /\ ~sim.constructed
    /\ stats_cache' = ld[1]
    /\ loads' = ld[2]
    /\ sim' = IF r.raised # "" THEN sim
              ELSE [constructed |-> TRUE, industry |-> industry,
                    revenue |-> revenue, num_simulations |-> num_simulations,
                    freq_param |-> r.val[1], sev_param |-> r.val[2],
                    results |-> <<>>]
    /\ out' = [NoOut EXCEPT !.op = "construct", !.raised = r.raised,
                            !.industry = industry, !.revenue = revenue,
                            !.num_simulations = num_simulations]
    /\ UNCHANGED <<dbVars, stats_file, csv, workerVars, callVars>>

\* __init__ called without num_simulations
ConstructDefault(industry, revenue) ==
    Construct(industry, revenue, DefaultNumSimulations)

\* run_simulation when poisson.rvs rejects a negative size (line 132)
RunNegativeSize(save_to_csv) ==
    /\ sim.constructed
    /\ sim.num_simulations < 0
    /\ out' = [NoOut EXCEPT !.op = "run", !.raised = "ValueError",
                            !.num_simulations = sim.num_simulations,
                            !.save_to_csv = save_to_csv,
                            !.results_before = sim.results]
    /\ UNCHANGED <<dbVars, stats_file, stats_cache, loads, sim, csv, workerVars, callVars>>

\* run_simulation with the draws of this call: attack_counts from
\* poisson.rvs, then one norm.rvs cost per attack.  np.min raises on an empty
\* losses array (line 214), after the log was extended and the file written
Run(save_to_csv, attack_counts, costs) ==
    LET sl == simulate_losses(sim.results, attack_counts, costs) IN
    /\ sim.constructed
    /\ sim.num_simulations >= 0
    /\ Len(attack_counts) = sim.num_simulations
    /\ Len(costs) = SumSeq(attack_counts)
    /\ sim' = [sim EXCEPT !.results = sl.results]
    /\ csv' = IF save_to_csv THEN [written |-> TRUE, rows |-> sl.results] ELSE csv
    /\ out' = [NoOut EXCEPT !.op = "run",
                            !.raised = IF sl.losses = <<>> THEN "ValueError" ELSE "",
                            !.num_simulations = sim.num_simulations,
                            !.save_to_csv = save_to_csv,
                            !.wrote_csv = save_to_csv,
                            !.attack_counts = attack_counts,
                            !.costs = costs,
                            !.results_before = sim.results,
                            !.losses = sl.losses,
                            !.metrics = IF sl.losses = <<>> THEN NoMetrics
                                        ELSE SimulationMetrics(sl.losses)]
    /\ UNCHANGED <<dbVars, stats_file, stats_cache, loads, workerVars, callVars>>

\* the Poisson draws of one call that leave room in the log; an engine with
\* more than MaxRuns runs (the default) is constructed but not run
AttackCounts ==
    IF sim.num_simulations > MaxRuns THEN {} ELSE
    {c \in [1 .. sim.num_simulations -> 0 .. (MaxLogRows - Len(sim.results))] :
        Len(sim.results) + SumSeq(c) <= MaxLogRows}

NextEngine ==
    \/ \E input \in EngineInputs, n \in RunCounts :
          Construct(input[1], input[2], n)
    \/ \E input \in EngineInputs : ConstructDefault(input[1], input[2])
    \/ \E save_to_csv \in BOOLEAN : RunNegativeSize(save_to_csv)
    \/ \E save_to_csv \in BOOLEAN, attack_counts \in AttackCounts :
          \E costs \in [1 .. SumSeq(attack_counts) -> CostDraws] :
              Run(save_to_csv, attack_counts, costs)

Spec == Init /\ [][NextEngine]_vars

(***************************************************************************)
(* The engine with an injected random source, as test_run_simulation       *)
(* patches it: poisson.rvs returns a given array of attack counts and      *)
(* every norm.rvs draw is one constant cost, in tenths (52 is 5.2).        *)
(***************************************************************************)
MaxSampleRuns == 5

\* the attack counts a patched poisson.rvs returns for one run: those of the
\* test's array
SampleAttackDraws == 0 .. 3

\* the constant cost of a patched norm.rvs: one negative, and the 5.2 of
\* the test
SampleCosts == {-1, 52}

\* the return values of a patched poisson.rvs, for an engine that has not
\* logged a cost yet
SampleAttackCounts ==
    IF sim.num_simulations \in 1 .. MaxSampleRuns /\ sim.results = <<>>
    THEN [1 .. sim.num_simulations -> SampleAttackDraws]
    ELSE {}

\* an engine for the injected draws: the first pair of EngineInputs, with
\* as many runs as the patched poisson.rvs returns counts
ConstructSample(num_simulations) == Construct("FINANCE", 5, num_simulations)

\* run_simulation() on a fresh engine under the patched draws
RunSample(attack_counts, cost) ==
    /\ sim.results = <<>>
    /\ Run(FALSE, attack_counts, [j \in 1 .. SumSeq(attack_counts) |-> cost])

NextSample ==
    \/ \E n \in 1 .. MaxSampleRuns : ConstructSample(n)
    \/ \E attack_counts \in SampleAttackCounts, cost \in SampleCosts :
          RunSample(attack_counts, cost)

SpecSample == Init /\ [][NextSample]_vars

(***************************************************************************)
(* The engine in floating point.  numpy works on float64; the definitions  *)
(* above compute in exact arithmetic, these round every operation as a     *)
(* binary floating-point format does: to the nearest value with            *)
(* MantissaBits significant bits, ties to the even mantissa, on a grid of  *)
(* 2^-FractionBits (the format's smallest spacing).  A float is the        *)
(* integer number of grid units it is worth.  float64 has 53 significant   *)
(* bits; the format here is narrow so that its values can be enumerated.   *)
(***************************************************************************)
MantissaBits == 5
FractionBits == 4
MaxFloatRuns == 3

RECURSIVE Pow2(_)
Pow2(n) == IF n = 0 THEN 1 ELSE 2 * Pow2(n - 1)

Abs(x) == IF x < 0 THEN -x ELSE x

\* the spacing of the floats around n / d (n >= 0, d > 0): the smallest
\* power of two u, not below u0, with n / d < 2^MantissaBits * u
RECURSIVE Spacing(_, _, _)
Spacing(n, d, u0) ==
    IF n < Pow2(MantissaBits) * u0 * d THEN u0 ELSE Spacing(n, d, 2 * u0)

\* n / d (n >= 0) rounded to the nearest float, ties to even
RoundAbs(n, d) ==
    LET u == Spacing(n, d, 1)
        q == n \div (d * u)
        r == n - q * d * u
    IN IF 2 * r < d * u THEN q * u
       ELSE IF 2 * r > d * u THEN (q + 1) * u
       ELSE IF q % 2 = 0 THEN q * u ELSE (q + 1) * u

\* the float nearest to n / d
Round(n, d) == IF n < 0 THEN -RoundAbs(-n, d) ELSE RoundAbs(n, d)

\* a + b, a - b, a * b and a / n on floats (n an integer)
FAdd(a, b) == Round(a + b, 1)
FSub(a, b) == Round(a - b, 1)
FMul(a, b) == Round(a * b, Pow2(FractionBits))
FDiv(a, n) == Round(a, n)

\* the loop "res += a[i]" numpy's add.reduce runs over fewer than 8 floats
RECURSIVE FSum(_, _)
FSum(q, n) == IF n = 0 THEN 0 ELSE FAdd(FSum(q, n - 1), q[n])

\* _simulate_losses on float costs: losses[i] += cost for each cost drawn
simulate_losses_float(results, attack_counts, costs) ==
    [results |-> results \o DataToAppend(attack_counts, costs, Len(attack_counts)),
     losses  |-> [i \in 1 .. Len(attack_counts) |->
                    FSum(CostsOfRun(attack_counts, costs, i), attack_counts[i])]]

\* np.percentile(losses, 95) of the sorted losses s: the position
\* 0.95 * (N - 1) is k / 20, gamma its fractional part as a float, and
\* numpy's lerp takes a + (b - a) * gamma below gamma = 0.5 and
\* b - (b - a) * (1 - gamma) from 0.5 on
percentile_95_float(s) ==
    LET N == Len(s)
        k == 19 * (N - 1)
        lo == (k \div 20) + 1
        hi == IF lo + 1 > N THEN N ELSE lo + 1
        gamma == Round((k % 20) * Pow2(FractionBits), 20)
        one == Pow2(FractionBits)
        diff_b_a == FSub(s[hi], s[lo])
    IN IF 2 * gamma >= one
       THEN FSub(s[hi], FMul(diff_b_a, FSub(one, gamma)))
       ELSE FAdd(s[lo], FMul(diff_b_a, gamma))

\* variant: the mean is the quotient cut off at the float below it in
\* magnitude instead of rounded to the nearest
metrics_float_truncated_mean(losses) ==
    LET N == Len(losses)
        s == Sorted(losses)
        total == FSum(losses, N)
        u == Spacing(Abs(total), N, 1)
        cut == (Abs(total) \div (N * u)) * u
        mean == IF total < 0 THEN -cut ELSE cut
        squares == [i \in 1 .. N |->
                      FMul(FSub(losses[i], mean), FSub(losses[i], mean))]
    IN [scale |-> Pow2(FractionBits),
        total_loss |-> total,
        mean_loss |-> mean,
        median_loss |-> IF N % 2 = 1 THEN s[(N + 1) \div 2]
                        ELSE FDiv(FAdd(s[N \div 2], s[(N \div 2) + 1]), 2),
        variance |-> FDiv(FSum(squares, N), N),
        min_loss |-> s[1],
        max_loss |-> s[N],
        percentile_95_loss |-> percentile_95_float(s)]

\* lines 210-216 on floats.  Every field is in units of 1 / scale,
\* scale = 2^FractionBits; variance is np.std before its square root:
\* the mean of the squared deviations from the mean
SimulationMetricsFloat(losses) ==
    LET N == Len(losses)
        s == Sorted(losses)
        total == FSum(losses, N)
        mean == FDiv(total, N)
        squares == [i \in 1 .. N |->
                      FMul(FSub(losses[i], mean), FSub(losses[i], mean))]
    IN [scale |-> Pow2(FractionBits),
        total_loss |-> total,
        mean_loss |-> mean,
        median_loss |-> IF N % 2 = 1 THEN s[(N + 1) \div 2]
                        ELSE FDiv(FAdd(s[N \div 2], s[(N \div 2) + 1]), 2),
        variance |-> FDiv(FSum(squares, N), N),
        min_loss |-> s[1],
        max_loss |-> s[N],
        percentile_95_loss |-> percentile_95_float(s)]

\* the floats norm.rvs returns, in grid units: 30 is 1.875, and one
\* negative draw
FloatCostDraws == {-3, 30}

\* attack counts poisson.rvs returns for one run
FloatAttackDraws == 0 .. 2

FloatAttackCounts ==
    IF sim.num_simulations \in 1 .. MaxFloatRuns /\ sim.results = <<>>
    THEN [1 .. sim.num_simulations -> FloatAttackDraws]
    ELSE {}

\* an engine of 1 .. MaxFloatRuns runs
ConstructFloat(num_simulations) == Construct("FINANCE", 5, num_simulations)

\* run_simulation() without export, computed in floats
RunFloat(attack_counts, costs) ==
    LET sl == simulate_losses_float(sim.results, attack_counts, costs) IN
    /\ sim.constructed
    /\ sim.results = <<>>
    /\ sim.num_simulations >= 0
    /\ Len(attack_counts) = sim.num_simulations
    /\ Len(costs) = SumSeq(attack_counts)
    /\ sim' = [sim EXCEPT !.results = sl.results]
    /\ out' = [NoOut EXCEPT !.op = "run",
                            !.raised = IF sl.losses = <<>> THEN "ValueError" ELSE "",
                            !.num_simulations = sim.num_simulations,
                            !.attack_counts = attack_counts,
                            !.costs = costs,
                            !.results_before = sim.results,
                            !.losses = sl.losses,
                            !.metrics = IF sl.losses = <<>> THEN NoMetrics
                                        ELSE SimulationMetricsFloat(sl.losses)]
    /\ UNCHANGED <<dbVars, stats_file, stats_cache, loads, csv, workerVars, callVars>>

NextFloat ==
    \/ \E n \in 1 .. MaxFloatRuns : ConstructFloat(n)
    \/ \E attack_counts \in FloatAttackCounts :
          \E costs \in [1 .. SumSeq(attack_counts) -> FloatCostDraws] :
              RunFloat(attack_counts, costs)

SpecFloat == Init /\ [][NextFloat]_vars

(***************************************************************************)
(* AnalysisService and the database.  A row of synthetic_companies is      *)
(* {company_id, revenue_usd, industry}; a row of simulations is            *)
(* {company_id, total_loss, mean_loss} (the timestamp column is left out). *)
(***************************************************************************)
\* str.upper() on the industry strings the service stores
Upper(industry_str) ==
    CASE industry_str = "healthcare"    -> "HEALTHCARE"
      [] industry_str = "finance"       -> "FINANCE"
      [] industry_str = "retail"        -> "RETAIL"
      [] industry_str = "manufacturing" -> "MANUFACTURING"
      [] industry_str = "construction"  -> "CONSTRUCTION"
      [] OTHER                          -> industry_str

\* Industry.from_string
from_string(industry_str) ==
    IF Upper(industry_str) \in Industry THEN Return(Upper(industry_str))
    ELSE Raise("ValueError")

\* what np.random.choice and np.round(np.random.uniform(1, 1000)) can give
\* one company: <<industry, revenue_usd>>
CompanyKinds == {<<"finance", 5>>, <<"healthcare", 20>>}

\* mean_loss values run_simulation() can return to the service; 0 when no
\* run of the 10000 had an attack
MeanLosses == {0, 7}

\* _generate_synthetic_companies: company ids 1 .. num_companies
generate_synthetic_companies(kinds) ==
    [i \in 1 .. Len(kinds) |->
        [company_id |-> i, revenue_usd |-> kinds[i][2], industry |-> kinds[i][1]]]

\* AnalysisService(num_companies): generates the companies, replaces the
\* synthetic_companies table with them (if_exists='replace') and keeps them
NewService(kinds) ==
    /\ service' = [exists |-> TRUE, companies |-> generate_synthetic_companies(kinds)]
    /\ companies_table' = generate_synthetic_companies(kinds)
    /\ svc_out' = [NoSvcOut EXCEPT !.op = "init", !.before = simulations_table]
    /\ UNCHANGED <<stats_file, stats_cache, loads, simulations_table,
                   workerVars, engineVars, callVars, webVars>>

\* the loop of run_simulations over the first n companies: the error that
\* ended it (if any), the simulators constructed and the result rows
\* collected in simulation_results
RECURSIVE simulate_companies(_, _, _, _)
simulate_companies(companies, stats, mean_losses, n) ==
    IF n = 0 THEN [raised |-> "", constructed |-> <<>>, rows |-> <<>>]
    ELSE LET before == simulate_companies(companies, stats, mean_losses, n - 1)
             company == companies[n]
             industry == from_string(company.industry)
             params == get_industry_revenue_params(stats, industry.val,
                                                   company.revenue_usd)
         IN IF before.raised # "" THEN before
            ELSE IF industry.raised # ""
                 THEN [before EXCEPT !.raised = industry.raised]
            ELSE IF params.raised # ""
                 THEN [before EXCEPT !.raised = params.raised,
                          !.constructed = Append(@, <<industry.val, company.revenue_usd>>)]
            ELSE [before EXCEPT
                    !.constructed = Append(@, <<industry.val, company.revenue_usd>>),
                    !.rows = Append(@, [company_id |-> company.company_id,
                                        total_loss |-> DefaultNumSimulations * mean_losses[n],
                                        mean_loss |-> mean_losses[n]])]

\* variant: each company's row is saved as soon as its simulation is done
run_simulations_save_each(companies, stats, mean_losses) ==
    LET loop == simulate_companies(companies, stats, mean_losses, Len(companies))
    IN [raised |-> loop.raised, constructed |-> loop.constructed,
        saved |-> [i \in 1 .. Len(loop.rows) |-> <<loop.rows[i]>>]]

\* run_simulations: the loop, then one _save_simulation_to_db of all rows;
\* saved is the sequence of DataFrames appended to the simulations table
run_simulations(companies, stats, mean_losses) ==
    LET loop == simulate_companies(companies, stats, mean_losses, Len(companies))
    IN [raised |-> loop.raised, constructed |-> loop.constructed,
        saved |-> IF loop.raised = "" THEN <<loop.rows>> ELSE <<>>]

RECURSIVE Flatten(_)
Flatten(frames) ==
    IF frames = <<>> THEN <<>> ELSE frames[1] \o Flatten(Tail(frames))

\* service.run_simulations() with the mean losses its simulators return
RunSimulations(mean_losses) ==
    LET ld == load_stats
        r == run_simulations(service.companies, Table(ld[1]), mean_losses) IN
    /\ service.exists
    /\ Len(mean_losses) = Len(service.companies)
    /\ Len(simulations_table) + Len(Flatten(r.saved)) <= MaxDbRows
    /\ stats_cache' = IF r.constructed = <<>> THEN stats_cache ELSE ld[1]
    /\ loads' = IF r.constructed = <<>> THEN loads ELSE ld[2]
    /\ simulations_table' = simulations_table \o Flatten(r.saved)
    /\ svc_out' = [op |-> "run_simulations", raised |-> r.raised,
                   before |-> simulations_table, constructed |-> r.constructed,
                   writes |-> Len(r.saved)]
    /\ UNCHANGED <<stats_file, companies_table, service,
                   workerVars, engineVars, callVars, webVars>>

\* the random companies of a new service
NewCompanies ==
    UNION {[1 .. n -> CompanyKinds] : n \in 1 .. MaxCompanies}

NextService ==
    \/ \E kinds \in NewCompanies : NewService(kinds)
    \/ \E mean_losses \in [1 .. Len(service.companies) -> MeanLosses] :
          RunSimulations(mean_losses)

SpecService == Init /\ [][NextService]_vars

(***************************************************************************)
(* The web service.  An lru_cache is a function from the arguments already *)
(* seen to the result returned for them; a call that raises is not cached. *)
(* The model asks for fewer distinct arguments than maxsize = 100, so no   *)
(* entry is ever evicted.  fetchone() gives None or a 1-tuple: None is     *)
(* <<>> here and the tuple (x,) is <<x>>.                                  *)
(***************************************************************************)
\* lookup of key in a cache, and the cache after storing a result
Cached(cache, key) == key \in DOMAIN cache
Store(cache, key, result) ==
    [k \in DOMAIN cache \cup {key} |-> IF k = key THEN result ELSE cache[k]]

\* the query of fetch_cost_by_company_from_db: the first row's mean_loss
select_mean_loss(table, company_id) ==
    LET hits == {j \in 1 .. Len(table) : table[j].company_id = company_id}
    IN IF hits = {} THEN <<>>
       ELSE <<table[CHOOSE j \in hits : \A k \in hits : j <= k].mean_loss>>

\* fetch_cost_by_company_from_db under its lru_cache
fetch_cost_by_company_from_db(cache, table, company_id) ==
    IF Cached(cache, company_id)
    THEN [result |-> cache[company_id], cache |-> cache]
    ELSE [result |-> select_mean_loss(table, company_id),
          cache  |-> Store(cache, company_id, select_mean_loss(table, company_id))]

\* GET /get_results_by_id/<company_id>
GetResultsById(company_id) ==
    LET f == fetch_cost_by_company_from_db(id_cache, simulations_table, company_id) IN
    /\ id_cache' = f.cache
    /\ resp' = [NoResp EXCEPT
                  !.op = "get_results_by_id", !.company_id = company_id,
                  !.status = IF f.result # <<>> THEN 200 ELSE 404,
                  !.value = f.result,
                  !.error = IF f.result # <<>> THEN "" ELSE "no company found",
                  !.cached = Cached(id_cache, company_id),
                  !.rows_then = simulations_table]
    /\ UNCHANGED <<stats_file, stats_cache, loads, tableVars, serviceVars,
                   seg_cache, workerVars, engineVars, callVars>>

\* the company ids requested: those a service can hold
CompanyIds == 1 .. MaxCompanies

NextById ==
    \/ \E kinds \in NewCompanies : NewService(kinds)
    \/ \E mean_losses \in [1 .. Len(service.companies) -> MeanLosses] :
          RunSimulations(mean_losses)
    \/ \E company_id \in CompanyIds : GetResultsById(company_id)

SpecById == Init /\ [][NextById]_vars

\* parse_revenue_band: the member with that value, None for any other label
parse_revenue_band(band_str) ==
    IF \E b \in RevenueBand : BandValue(b) = band_str
    THEN CHOOSE b \in RevenueBand : BandValue(b) = band_str
    ELSE "None"

\* the companies the inner query selects: industry IN (...) AND
\* (revenue_usd < 0 OR one of the "lower < revenue_usd <= upper" clauses)
select_company_ids(companies, bounds, industries_str) ==
    {companies[j].company_id : j \in
        {j \in 1 .. Len(companies) :
            /\ \E i \in 1 .. Len(industries_str) :
                  companies[j].industry = industries_str[i]
            /\ \/ companies[j].revenue_usd < 0
               \/ \E b \in 1 .. Len(bounds) :
                     /\ bounds[b][1] < companies[j].revenue_usd
                     /\ companies[j].revenue_usd <= bounds[b][2]}}

RECURSIVE SumMeanLoss(_, _)
SumMeanLoss(table, S) ==
    IF S = {} THEN 0
    ELSE LET j == CHOOSE x \in S : TRUE
         IN table[j].mean_loss + SumMeanLoss(table, S \ {j})

\* SELECT avg(mean_loss) ... WHERE company_id in (...): the 1-tuple
\* fetchone() gives, holding NULL (<<>>) over no row and otherwise the
\* average as the fraction <<sum, count>>
select_avg_mean_loss(table, ids) ==
    LET hits == {j \in 1 .. Len(table) : table[j].company_id \in ids}
    IN IF hits = {} THEN << <<>> >>
       ELSE << <<SumMeanLoss(table, hits), Cardinality(hits)>> >>

\* fetch_cost_by_revenue_and_industry_from_db under its lru_cache
fetch_cost_by_revenue_and_industry_from_db(cache, companies, table, revenue_bands_str, industries_str) ==
    LET key == <<revenue_bands_str, industries_str>>
        revenue_bands == [i \in 1 .. Len(revenue_bands_str) |->
                            parse_revenue_band(revenue_bands_str[i])]
        looked_up == [i \in 1 .. Len(revenue_bands) |->
                        get_revenue_boundaries_by_band(revenue_bands[i])]
        failed == {i \in 1 .. Len(looked_up) : looked_up[i].raised # ""}
        bounds == [i \in 1 .. Len(looked_up) |-> looked_up[i].val]
        result == select_avg_mean_loss(table,
                      select_company_ids(companies, bounds, industries_str))
    IN IF Cached(cache, key)
       THEN [raised |-> "", result |-> cache[key], cache |-> cache]
       ELSE IF failed # {}
       THEN [raised |-> looked_up[CHOOSE i \in failed : \A j \in failed : i <= j].raised,
             result |-> <<>>, cache |-> cache]
       ELSE [raised |-> "", result |-> result, cache |-> Store(cache, key, result)]

\* Python truth of result[0]: None and the number 0.0 are false
Truthy(avg) == avg # <<>> /\ avg[1] # 0

\* GET /get_results_by_segmentation?revenue=..&industry=..
GetResultsBySegmentation(revenue_bands, industries) ==
    LET f == fetch_cost_by_revenue_and_industry_from_db(seg_cache, companies_table,
                 simulations_table, revenue_bands, industries) IN
    /\ seg_cache' = f.cache
    /\ resp' = [NoResp EXCEPT
                  !.op = "get_results_by_segmentation",
                  !.revenue = revenue_bands, !.industry = industries,
                  !.status = IF f.raised # "" THEN 500
                             ELSE IF Truthy(f.result[1]) THEN 200 ELSE 404,
                  !.value = IF f.raised = "" /\ Truthy(f.result[1])
                            THEN f.result[1] ELSE <<>>,
                  !.error = IF f.raised # "" THEN f.raised
                            ELSE IF Truthy(f.result[1]) THEN ""
                            ELSE "no companies found",
                  !.cached = Cached(seg_cache, <<revenue_bands, industries>>),
                  !.companies_then = companies_table,
                  !.rows_then = simulations_table]
    /\ UNCHANGED <<stats_file, stats_cache, loads, tableVars, serviceVars,
                   id_cache, workerVars, engineVars, callVars>>

\* the revenue and industry arguments of the requests
RevenueArgs == {<<"10M">>, <<"10M", "100M">>, <<"2B">>}
IndustryArgs == {<<"finance", "healthcare">>}

NextSegmentation ==
    \/ \E kinds \in NewCompanies : NewService(kinds)
    \/ \E mean_losses \in [1 .. Len(service.companies) -> MeanLosses] :
          RunSimulations(mean_losses)
    \/ \E revenue_bands \in RevenueArgs, industries \in IndustryArgs :
          GetResultsBySegmentation(revenue_bands, industries)

SpecSegmentation == Init /\ [][NextSegmentation]_vars

(***************************************************************************)
(* Claims about the classifier and the resolver (SpecResolver).            *)
(***************************************************************************)
InRange(r) == 0 <= r /\ r <= 1000

\* C1: classify is defined exactly for 0 <= r <= 1000 and raises
\* InvalidRevenue below 0 and above 1000; on its domain the band is 10M for
\* 0 <= r <= 10, 100M for 10 < r <= 100, 500M for 100 < r <= 500 and 1B for
\* 500 < r <= 1000.
C1_ClassifyBands ==
    last.op = "classify" =>
        LET r == last.revenue IN
        /\ (last.raised = "") <=> InRange(r)
        /\ (last.raised = "InvalidRevenue") <=> (r < 0 \/ r > 1000)
        /\ (last.band = "BAND_10M") <=> (0 <= r /\ r <= 10)
        /\ (last.band = "BAND_100M") <=> (10 < r /\ r <= 100)
        /\ (last.band = "BAND_500M") <=> (100 < r /\ r <= 500)
        /\ (last.band = "BAND_1B") <=> (500 < r /\ r <= 1000)

\* the edge 10 was classified into the first band right after 1000 went
\* into the last one
C1_Witness ==
    /\ prev.op = "classify" /\ prev.revenue = 1000 /\ prev.band = "BAND_1B"
    /\ last.op = "classify" /\ last.revenue = 10 /\ last.band = "BAND_10M"

\* C7 as stated: resolve fails with InvalidRevenue for every out-of-range
\* revenue, whatever the industry, also one absent from the table.
C7_InvalidRevenueFirst ==
    (last.op = "resolve" /\ ~InRange(last.revenue))
        => last.raised = "InvalidRevenue"

\* C7 amended: resolve looks the industry up before it classifies the
\* revenue: for an out-of-range revenue it fails with UnknownIndustry when
\* the lower-cased industry is absent from the table and with InvalidRevenue
\* when it is present.
C7_IndustryBeforeRevenue ==
    (last.op = "resolve" /\ ~InRange(last.revenue)) =>
        IF Lower(last.industry) \in DOMAIN stats_file
        THEN last.raised = "InvalidRevenue"
        ELSE last.raised = "UnknownIndustry"

\* an out-of-range revenue with an industry the table lacks
C7_Witness ==
    /\ last.op = "resolve" /\ last.revenue = 1001
    /\ Lower(last.industry) \notin DOMAIN stats_file
    /\ last.raised = "UnknownIndustry"

\* C8: for a valid revenue resolve fails with UnknownIndustry exactly when
\* the lower-cased industry is no key of the table, with UnknownBand exactly
\* when the industry is a key and the label of classify(r) is no key under
\* it, and succeeds in every other case.
C8_ResolveFailures ==
    (last.op = "resolve" /\ InRange(last.revenue)) =>
        LET key == Lower(last.industry)
            label == BandValue(get_revenue_band_by_revenue(last.revenue).val)
            noIndustry == key \notin DOMAIN stats_file
            noBand == ~noIndustry /\ label \notin DOMAIN stats_file[key]
        IN /\ (last.raised = "UnknownIndustry") <=> noIndustry
           /\ (last.raised = "UnknownBand") <=> noBand
           /\ (last.raised = "") <=> (~noIndustry /\ ~noBand)

\* a known industry whose entry lacks the band of the revenue, after a
\* call that succeeded
C8_Witness ==
    /\ prev.op = "resolve" /\ prev.raised = ""
    /\ last.op = "resolve" /\ InRange(last.revenue)
    /\ last.raised = "UnknownBand"

\* C9: on success resolve returns exactly the (frequency, cost) pair the
\* table stores under (industry, label of classify(revenue)); two calls with
\* the same industry and revenue return the same pair, and so do two calls
\* with the same industry and revenues of the same band.
C9_ResolveReturnsStoredPair ==
    /\ (last.op = "resolve" /\ last.raised = "") =>
          LET e == stats_file[Lower(last.industry)]
                     [BandValue(get_revenue_band_by_revenue(last.revenue).val)]
          IN last.val = <<e.frequency, e.cost>>
    /\ (/\ prev.op = "resolve" /\ prev.raised = ""
        /\ last.op = "resolve" /\ last.raised = ""
        /\ prev.industry = last.industry
        /\ get_revenue_band_by_revenue(prev.revenue)
             = get_revenue_band_by_revenue(last.revenue))
          => prev.val = last.val

\* two successful calls for one industry with different revenues of one band
C9_Witness ==
    /\ prev.op = "resolve" /\ prev.raised = "" /\ prev.revenue = 101
    /\ last.op = "resolve" /\ last.raised = "" /\ last.revenue = 500
    /\ prev.industry = last.industry
    /\ last.val = <<15, 3000>>

\* C10 as stated: for every valid revenue r, zero included, the pair
\* (lower, upper) of bounds(classify(r)) satisfies lower < r <= upper.
C10_BoundsContainRevenue ==
    (/\ prev.op = "classify" /\ prev.raised = ""
     /\ last.op = "bounds" /\ last.band = prev.band /\ last.raised = "")
        => (last.val[1] < prev.revenue /\ prev.revenue <= last.val[2])

\* C11 as stated: bounds returns (0,10), (10,100), (100,500), (500,1000) for
\* the bands 10M, 100M, 500M, 1B, and for every other input (the None of an
\* unknown label, any non-band object) it fails with InvalidBand, the
\* ValueError("Invalid revenue band: ..."), and with no other error.
C11_BoundsOrInvalidBand ==
    last.op = "bounds" =>
        /\ (last.band = "BAND_10M") => (last.raised = "" /\ last.val = <<0, 10>>)
        /\ (last.band = "BAND_100M") => (last.raised = "" /\ last.val = <<10, 100>>)
        /\ (last.band = "BAND_500M") => (last.raised = "" /\ last.val = <<100, 500>>)
        /\ (last.band = "BAND_1B") => (last.raised = "" /\ last.val = <<500, 1000>>)
        /\ (last.band \notin RevenueBand) => last.raised = "InvalidBand"

(***************************************************************************)
(* Claims about the cache (SpecCache).                                     *)
(***************************************************************************)
\* C4 as stated: under any interleaving of concurrent first calls of
\* load_stats the stats file is opened and parsed by at most one worker, and
\* every caller receives that one loaded table.
C4_LoadedAtMostOnce ==
    /\ loads <= 1
    /\ \A v, w \in Workers :
          (ret[v] # None /\ ret[w] # None) => ret[v] = ret[w]

\* C19 as stated: once the cache holds a loaded table it is never reassigned,
\* under any interleaving of load_stats calls, concurrent first accesses
\* included, and a worker that has been handed a table keeps being handed
\* that same object.
C19_CacheNeverReassigned ==
    [][/\ stats_cache # None => stats_cache' = stats_cache
       /\ \A w \in Workers :
             (ret[w] # None /\ ret'[w] # None) => ret'[w] = ret[w]]_vars

(***************************************************************************)
(* Claims about the engine (Spec).                                         *)
(***************************************************************************)
\* C2 as stated: constructing the engine with a run count N < 1 fails with
\* InvalidRunCount at construction, so no engine exists afterwards.
C2_RunCountRejected ==
    (/\ out.op = "construct"
     /\ out.num_simulations < 1
     /\ get_industry_revenue_params(stats_file, out.industry, out.revenue).raised = "")
        => (out.raised = "InvalidRunCount" /\ ~sim.constructed)

\* C3 as stated: once an engine is constructed, run() never raises, whatever
\* attack counts and costs are drawn.
C3_RunNeverFails ==
    out.op = "run" => out.raised = ""

RowsOfCall ==
    DataToAppend(out.attack_counts, out.costs, Len(out.attack_counts))

C6_ExportOnlyThisCall ==
    (out.op = "run" /\ out.save_to_csv /\ out.num_simulations >= 0) =>
        /\ csv.written
        /\ csv.rows = RowsOfCall
        /\ Len(csv.rows) = SumSeq(out.attack_counts)

\* the rows the call recorded in out added to the engine's log
NewRows == SubSeq(sim.results, Len(out.results_before) + 1, Len(sim.results))

\* the positions in NewRows of the rows of run i
RowsOfRunNo(i) == {j \in 1 .. Len(NewRows) : NewRows[j].simulation_id = i}

RECURSIVE SumCosts(_, _)
SumCosts(rows, S) ==
    IF S = {} THEN 0
    ELSE LET j == CHOOSE x \in S : TRUE IN rows[j].cost + SumCosts(rows, S \ {j})

\* C18: in every invocation of run(), run i draws exactly attack_counts[i]
\* costs and its total loss is their sum exactly as drawn, negative draws
\* included; a run with no attack draws nothing and has total loss 0.
C18_LossIsSumOfDraws ==
    (out.op = "run" /\ out.num_simulations >= 0) =>
        /\ Len(out.losses) = out.num_simulations
        /\ Len(out.costs) = SumSeq(out.attack_counts)
        /\ [j \in 1 .. Len(NewRows) |-> NewRows[j].cost] = out.costs
        /\ \A i \in 1 .. out.num_simulations :
              /\ Cardinality(RowsOfRunNo(i)) = out.attack_counts[i]
              /\ out.losses[i] = SumCosts(NewRows, RowsOfRunNo(i))
              /\ out.attack_counts[i] = 0 => out.losses[i] = 0

\* a call of two runs drew one negative cost for the first run and no attack
\* for the second: the minimum is negative, the maximum is the empty run's 0
C18_Witness ==
    /\ out.op = "run" /\ out.raised = ""
    /\ out.attack_counts = <<1, 0>> /\ out.costs = <<-1>>
    /\ out.losses = <<-1, 0>>
    /\ out.metrics.min_loss < 0
    /\ out.metrics.max_loss = 0

\* C14: two invocations of run() with the same run count, the same attack
\* counts and the same cost draws return the same metrics (or fail alike),
\* also when the second is made on the engine the first has left its rows in.
C14_SameDrawsSameMetrics ==
    [][(/\ out.op = "run" /\ out'.op = "run"
        /\ out'.num_simulations = out.num_simulations
        /\ out'.attack_counts = out.attack_counts
        /\ out'.costs = out.costs)
          => (out'.metrics = out.metrics /\ out'.raised = out.raised
              /\ out'.losses = out.losses)]_vars

\* a successful call that drew a cost was made on an engine whose log held
\* exactly the rows of an earlier call with the same draws
C14_Witness ==
    /\ out.op = "run" /\ out.raised = ""
    /\ Len(out.costs) >= 1
    /\ out.results_before = RowsOfCall
    /\ sim.results = RowsOfCall \o RowsOfCall
    /\ out.metrics = SimulationMetrics(out.losses)

\* C15: construction resolves eagerly: when resolve succeeds for (industry,
\* revenue) the engine holds the given industry, revenue and run count and
\* the pair resolve returns; when resolve fails, construction fails with
\* the same error (InvalidRevenue, UnknownIndustry or UnknownBand) and no
\* engine exists.
C15_EagerResolve ==
    out.op = "construct" =>
        LET r == get_industry_revenue_params(stats_file, out.industry, out.revenue) IN
        IF r.raised = ""
        THEN /\ out.raised = ""
             /\ sim.constructed
             /\ sim.industry = out.industry
             /\ sim.revenue = out.revenue
             /\ sim.num_simulations = out.num_simulations
             /\ <<sim.freq_param, sim.sev_param>> = r.val
        ELSE /\ out.raised = r.raised
             /\ out.raised \in {"InvalidRevenue", "UnknownIndustry", "UnknownBand"}
             /\ ~sim.constructed

\* the engine of the tests, built without a run count: FINANCE with revenue
\* 5 holds the default 10000 runs and the finance 10M pair
C15_Witness ==
    /\ out.op = "construct" /\ out.raised = ""
    /\ sim.constructed
    /\ sim.industry = "FINANCE" /\ sim.revenue = 5
    /\ sim.num_simulations = 10000
    /\ <<sim.freq_param, sim.sev_param>> = <<5, 1000>>

\* every field of the metrics recorded in out is this multiple of v
AllMetricsAre(v) ==
    /\ out.metrics.total_loss = out.metrics.scale * v
    /\ out.metrics.mean_loss = out.metrics.scale * v
    /\ out.metrics.median_loss = out.metrics.scale * v
    /\ out.metrics.min_loss = out.metrics.scale * v
    /\ out.metrics.max_loss = out.metrics.scale * v
    /\ out.metrics.percentile_95_loss = out.metrics.scale * v

\* C13: for a single-run invocation whose run has total loss v, total,
\* mean, median, min, max and 95th percentile all equal v and the standard
\* deviation is 0; with 0 attacks all seven metrics are 0.
C13_SingleRun ==
    (out.op = "run" /\ out.num_simulations = 1) =>
        /\ out.raised = ""
        /\ Len(out.losses) = 1
        /\ AllMetricsAre(out.losses[1])
        /\ out.metrics.variance = 0
        /\ out.attack_counts = <<0>> =>
              (AllMetricsAre(0) /\ out.metrics.total_loss = 0
               /\ out.metrics.percentile_95_loss = 0)

\* a single run with two attacks, one of them with a negative cost, has
\* total loss 4 in every field
C13_Witness ==
    /\ out.op = "run" /\ out.num_simulations = 1 /\ out.raised = ""
    /\ out.attack_counts = <<2>> /\ out.costs = <<5, -1>>
    /\ out.losses = <<4>>
    /\ out.metrics.percentile_95_loss = 4 * out.metrics.scale
    /\ out.metrics.variance = 0

(***************************************************************************)
(* Claims about the engine under injected draws (SpecSample).              *)
(***************************************************************************)
\* how many of the losses recorded in out are below x / at most x
Below(x) == Cardinality({i \in 1 .. Len(out.losses) : out.losses[i] < x})
AtMost(x) == Cardinality({i \in 1 .. Len(out.losses) : out.losses[i] <= x})

\* the k-th smallest of the losses recorded in out (k counts from 1)
KthSmallest(k) ==
    CHOOSE x \in {out.losses[i] : i \in 1 .. Len(out.losses)} :
        Below(x) < k /\ k <= AtMost(x)

\* C12: run() reduces the losses L of its N runs to total_loss = sum of L,
\* mean_loss = total_loss / N, median_loss = the middle element of L in
\* order (the mean of the two middle ones for even N), min_loss = min L and
\* max_loss = max L; attack counts [1,0,2,3,1] with every cost 5.2 give
\* total 36.4, mean 7.28, median 5.2, min 0 and max 15.6.
C12_Reduction ==
    (out.op = "run" /\ out.raised = "") =>
        LET N == Len(out.losses)
            mt == out.metrics
            c == IF out.costs = <<>> THEN 0 ELSE out.costs[1]
        IN /\ N = out.num_simulations
           /\ \A i \in 1 .. N : out.losses[i] = c * out.attack_counts[i]
           /\ mt.total_loss = mt.scale * c * SumSeq(out.attack_counts)
           /\ mt.mean_loss * N = mt.total_loss
           /\ mt.median_loss * 2 =
                 mt.scale * (KthSmallest((N + 1) \div 2) + KthSmallest((N + 2) \div 2))
           /\ \E i \in 1 .. N : mt.min_loss = mt.scale * out.losses[i]
           /\ \A i \in 1 .. N : mt.min_loss <= mt.scale * out.losses[i]
           /\ \E i \in 1 .. N : mt.max_loss = mt.scale * out.losses[i]
           /\ \A i \in 1 .. N : mt.max_loss >= mt.scale * out.losses[i]
           /\ (out.attack_counts = <<1, 0, 2, 3, 1>> /\ c = 52) =>
                 /\ mt.total_loss = 364 * mt.scale
                 /\ 10 * mt.mean_loss = 728 * mt.scale
                 /\ mt.median_loss = 52 * mt.scale
                 /\ mt.min_loss = 0
                 /\ mt.max_loss = 156 * mt.scale

\* the run of the test: attack counts [1,0,2,3,1], every cost 5.2
C12_Witness ==
    /\ out.op = "run" /\ out.raised = ""
    /\ out.attack_counts = <<1, 0, 2, 3, 1>>
    /\ out.costs = <<52, 52, 52, 52, 52, 52, 52>>
    /\ out.losses = <<52, 0, 104, 156, 52>>
    /\ out.metrics.total_loss = 36400
    /\ out.metrics.median_loss = 5200

(***************************************************************************)
(* Claims about AnalysisService (SpecService).                             *)
(***************************************************************************)
\* the error constructing the simulator of the service's i-th company ends
\* with ("" when it is constructed)
CompanyError(i) ==
    get_industry_revenue_params(stats_file, Upper(service.companies[i].industry),
                                service.companies[i].revenue_usd).raised

\* C20: run_simulations constructs one simulator per company with that
\* company's parsed industry and revenue; when every simulation succeeds,
\* exactly one row per company is appended to the simulations table in one
\* write after the loop; when a company fails, the error reaches the caller
\* unchanged and no row of the call is written.
C20_AtomicBatch ==
    svc_out.op = "run_simulations" =>
        LET cs == service.companies
            failing == {i \in 1 .. Len(cs) : CompanyError(i) # ""}
            first == IF failing = {} THEN Len(cs)
                     ELSE CHOOSE i \in failing : \A j \in failing : i <= j
        IN /\ svc_out.constructed =
                 [i \in 1 .. first |-> <<Upper(cs[i].industry), cs[i].revenue_usd>>]
           /\ IF failing = {}
              THEN /\ svc_out.raised = ""
                   /\ svc_out.writes = 1
                   /\ Len(simulations_table) = Len(svc_out.before) + Len(cs)
                   /\ SubSeq(simulations_table, 1, Len(svc_out.before)) = svc_out.before
                   /\ \A i \in 1 .. Len(cs) :
                         simulations_table[Len(svc_out.before) + i].company_id
                             = cs[i].company_id
              ELSE /\ svc_out.raised = CompanyError(first)
                   /\ svc_out.writes = 0
                   /\ simulations_table = svc_out.before

\* after an earlier call had written a row, a call failed on its second
\* company: two simulators were constructed and the table kept its one row
C20_Witness ==
    /\ svc_out.op = "run_simulations"
    /\ svc_out.raised \in {"UnknownIndustry", "UnknownBand"}
    /\ Len(svc_out.constructed) = 2
    /\ Len(svc_out.before) = 1
    /\ simulations_table = svc_out.before
    /\ svc_out.writes = 0

(***************************************************************************)
(* Claims about the web service (SpecById, SpecSegmentation).              *)
(***************************************************************************)
\* C16 as stated: whatever writes and requests came before, a request for a
\* company id answers by the simulations table as it is at the request: 200
\* with a stored mean_loss of that company when it has a row, 404 with
\* 'no company found' when it has none.
C16_AnswersByCurrentTable ==
    resp.op = "get_results_by_id" =>
        LET stored == {resp.rows_then[j].mean_loss : j \in
                         {j \in 1 .. Len(resp.rows_then) :
                             resp.rows_then[j].company_id = resp.company_id}}
        IN IF stored # {}
           THEN resp.status = 200 /\ resp.value # <<>> /\ resp.value[1] \in stored
           ELSE resp.status = 404 /\ resp.error = "no company found"

\* the companies of the request recorded in resp that match its industries
\* and revenue bands and have a row in the simulations table
MatchingWithResults ==
    {j \in 1 .. Len(resp.companies_then) :
        /\ \E i \in 1 .. Len(resp.industry) :
              resp.companies_then[j].industry = resp.industry[i]
        /\ \E i \in 1 .. Len(resp.revenue) :
              /\ resp.revenue[i] \in BandLabels
              /\ get_revenue_band_by_revenue(resp.companies_then[j].revenue_usd).val
                    = parse_revenue_band(resp.revenue[i])
        /\ \E k \in 1 .. Len(resp.rows_then) :
              resp.rows_then[k].company_id = resp.companies_then[j].company_id}

\* C17 as stated, for requests with known band labels that are answered
\* from the database and not from the cache: the answer is 200 with the
\* average whenever a matching company has results, whatever the average,
\* 0 included, and 404 with 'no companies found' exactly when none has.
C17_FoundWhateverAverage ==
    (/\ resp.op = "get_results_by_segmentation"
     /\ ~resp.cached
     /\ \A i \in 1 .. Len(resp.revenue) : resp.revenue[i] \in BandLabels) =>
        /\ MatchingWithResults # {} => (resp.status = 200 /\ resp.value # <<>>)
        /\ (resp.status = 404 /\ resp.error = "no companies found")
              <=> MatchingWithResults = {}

(***************************************************************************)
(* Claims about the metrics in floating point (SpecFloat).                 *)
(***************************************************************************)
\* the orderings of a metrics record that involve neither the mean nor the
\* total
OrderedQuantiles(mt) ==
    /\ mt.min_loss <= mt.median_loss /\ mt.median_loss <= mt.max_loss
    /\ mt.min_loss <= mt.percentile_95_loss
    /\ mt.percentile_95_loss <= mt.max_loss
    /\ mt.median_loss <= mt.percentile_95_loss
    /\ mt.variance >= 0

\* C21 as stated: every metrics record run() returns for N >= 1 has
\* min <= median <= max, min <= mean <= max, min <= p95 <= max,
\* median <= p95, std_dev >= 0 and total_loss = N * mean_loss.
C21_InternallyOrdered ==
    (out.op = "run" /\ out.raised = "") =>
        /\ OrderedQuantiles(out.metrics)
        /\ out.metrics.min_loss <= out.metrics.mean_loss
        /\ out.metrics.mean_loss <= out.metrics.max_loss
        /\ out.metrics.total_loss
              = Round(out.num_simulations * out.metrics.mean_loss, 1)

\* C21 amended: min <= median <= max, min <= p95 <= max, median <= p95 and
\* std_dev >= 0 hold for every record; mean_loss is total_loss / N rounded
\* to the nearest float, so N * mean_loss is within N / 2 spacings of
\* total_loss, and min <= mean <= max holds whenever total_loss is the sum
\* of the losses without rounding error.
C21_OrderedUpToRounding ==
    (out.op = "run" /\ out.raised = "") =>
        LET mt == out.metrics
            N == out.num_simulations
        IN /\ OrderedQuantiles(mt)
           /\ 2 * Abs(N * mt.mean_loss - mt.total_loss)
                 <= N * Spacing(Abs(mt.total_loss), N, 1)
           /\ mt.total_loss = SumSeq(out.losses) =>
                 (mt.min_loss <= mt.mean_loss /\ mt.mean_loss <= mt.max_loss)

\* three runs of one attack with the same cost 1.875: the sum 5.625 is
\* rounded to 5.5, the mean 1.8125 is below the minimum, and three times
\* the mean is not the total
C21_Witness ==
    /\ out.op = "run" /\ out.raised = ""
    /\ out.losses = <<30, 30, 30>>
    /\ out.metrics.total_loss = 88
    /\ out.metrics.mean_loss = 29
    /\ out.metrics.min_loss = 30
    /\ OrderedQuantiles(out.metrics)

====
